---- MODULE Spec2Model ----
(***************************************************************************)
(* A model of main.py of ECO-pytorch: main() from the dataset selection    *)
(* through the weight initialisation (init_ECO / init_C3DRes18 and the gap *)
(* fill), the resume, the construction of loaders, criterion and           *)
(* optimizer, and the epoch loop with adjust_learning_rate, the batch      *)
(* loops of train() and validate(), and save_checkpoint.  A run that ended *)
(* can be followed by another run of the program on the same file system.  *)
(*                                                                         *)
(* Strings the program computes with (file names, str(), lower()) are      *)
(* sequences of one-character strings.  Parameter names are sequences of   *)
(* their components.  Real numbers are pairs <<numerator, denominator>>.   *)
(* A tensor is its shape and the place its values come from.  A gradient   *)
(* is the set of batch gradients summed in it, each with the number of     *)
(* times it was divided by iter_size and scaled by the clipping.           *)
(***************************************************************************)
EXTENDS Integers, Sequences, FiniteSets, TLC

\* ------------------------------------------------------------------ bounds
MaxSamples == 9      \* samples behind a loader
MaxBatch == 4        \* args.batch_size
MaxIter == 3         \* args.iter_size
MaxEpochs == 2       \* args.epochs in the small configurations
MaxPrec == 2         \* values of top1.avg that validate() returns
MaxRuns == 2         \* runs of the program on one file system
MaxChan == 4         \* input channels of a tensor shape

None == "None"
Unbound == "Unbound"
\* the None of a record, of a string or dictionary, of a number
NoneRec == [none |-> TRUE]
NoPath == <<>>
NoShape == <<>>

VARIABLES
  cmdline,         \* the command line of the run
  env,             \* what the run finds: data set sizes, pretrained files,
                   \* the model's parameter shapes and optimisation policies
  fs,              \* the checkpoint files: file name -> checkpoint
  run,             \* number of the run
  pc,              \* position of main()
  error,           \* the exception that ended main(), or None
  args,            \* args of main.py
  num_class,
  rgb_read_format,
  model,           \* None, or the parameters of the model
  model_dict,
  new_state_dict,
  loaded,          \* the checkpoint files loaded so far
  train_loader,
  val_loader,
  criterion,
  optimizer,       \* None, or the param_groups of the optimizer
  best_prec1,
  epoch,
  i,               \* batch index of the running loop of train() / validate()
  grad,            \* p.grad of the parameters
  handed,          \* the gradients handed to optimizer.step() by the last loop body
  nproc,           \* number of batches train() has forwarded in this run
  forwarded,       \* the batches forwarded by the running call, in order
  top1_count,      \* top1.count of the running call
  prec1,           \* the value validate() returned
  best0,           \* best_prec1 on entry to the epoch loop
  seen             \* the evaluations of this run: <<epoch, prec1>>, in order

vars == <<cmdline, env, fs, run, pc, error, args, num_class, rgb_read_format,
          model, model_dict, new_state_dict, loaded, train_loader, val_loader,
          criterion, optimizer, best_prec1, epoch, i, grad, handed, nproc,
          forwarded, top1_count, prec1, best0, seen>>

\* ---------------------------------------------------------------- strings
Digit(d) == <<"0", "1", "2", "3", "4", "5", "6", "7", "8", "9">>[d + 1]

\* str(n) of a non-negative integer
RECURSIVE Str(_)
Str(n) == IF n < 10 THEN <<Digit(n)>> ELSE Str(n \div 10) \o <<Digit(n % 10)>>

UpperCase == <<"A", "B", "C", "D", "E", "F", "G", "H", "I", "J", "K", "L", "M",
               "N", "O", "P", "Q", "R", "S", "T", "U", "V", "W", "X", "Y", "Z">>
LowerCase == <<"a", "b", "c", "d", "e", "f", "g", "h", "i", "j", "k", "l", "m",
               "n", "o", "p", "q", "r", "s", "t", "u", "v", "w", "x", "y", "z">>

\* str.lower()
LowerOf ==
  [c \in {UpperCase[u] : u \in DOMAIN UpperCase} |->
     LowerCase[CHOOSE u \in DOMAIN UpperCase : UpperCase[u] = c]]
Lower(s) == [j \in DOMAIN s |-> IF s[j] \in DOMAIN LowerOf THEN LowerOf[s[j]] ELSE s[j]]

\* sep.join(parts)
RECURSIVE Join(_, _)
Join(sep, parts) ==
  IF Len(parts) = 0 THEN <<>>
  ELSE IF Len(parts) = 1 THEN parts[1]
  ELSE parts[1] \o sep \o Join(sep, Tail(parts))

RGB == <<"R", "G", "B">>
Flow == <<"F", "l", "o", "w">>
RGBDiff == <<"R", "G", "B", "D", "i", "f", "f">>

\* ------------------------------------------------------------------ reals
Rat(n, d) == <<n, d>>
RatMul(a, b) == <<a[1] * b[1], a[2] * b[2]>>
RatEq(a, b) == a[1] * b[2] = b[1] * a[2]

RECURSIVE Pow10(_)
Pow10(c) == IF c = 0 THEN 1 ELSE 10 * Pow10(c - 1)

\* ------------------------------------------------------------ the loaders
\* len(DataLoader) with drop_last left at False: ceil(n / batch_size)
LoaderLen(n, b) == (n + b - 1) \div b

\* input.size(0) of batch j of a loader over n samples
BatchLen(n, b, j) ==
  IF j < LoaderLen(n, b) - 1 THEN b ELSE n - (LoaderLen(n, b) - 1) * b

\* the index at which the batch loops break ("discard final batch")
DiscardIndexKeepAll(len) == len
DiscardIndex(len) == len - 1

\* ------------------------------------------------------ gradient algebra
\* a term of p.grad: the gradient of batch id, divided divs times by
\* iter_size and scaled clips times by clip_grad_norm_
Term(id) == [id |-> id, divs |-> 0, clips |-> 0]

\* loss.backward(): adds the batch's gradient to p.grad
Backward(g, id) == g \cup {Term(id)}

\* p.grad /= args.iter_size, for every parameter
ScaleDown(g) == {[t EXCEPT !.divs = @ + 1] : t \in g}

\* clip_grad_norm_: scales every gradient when the norm exceeds the maximum;
\* the norm of an all-zero gradient is 0 and never exceeds it
ClipGrad(g, exceeds) ==
  IF exceeds /\ g # {} THEN {[t EXCEPT !.clips = @ + 1] : t \in g} ELSE g

\* the condition of the accumulation-boundary branch
IsBoundary(idx, k) == idx % k = 0

\* ---------------------------------------------------- state dictionaries
EmptyDict == <<>>

\* d[k] = v
Put(d, k, v) == [x \in DOMAIN d \cup {k} |-> IF x = k THEN v ELSE d[x]]

\* d1 with the entries of d2 assigned over it
Update(d1, d2) ==
  [x \in DOMAIN d1 \cup DOMAIN d2 |-> IF x \in DOMAIN d2 THEN d2[x] ELSE d1[x]]

Restrict(d, keys) == [x \in keys |-> d[x]]

\* 'sub' in k, for a component sub of the parameter name k
HasToken(k, sub) == \E j \in DOMAIN k : k[j] = sub

PrefixBase == <<"module", "base_model">>
Res3a2Weight == <<"module", "base_model", "res3a_2", "weight">>

Tensor(shape, from) == [shape |-> shape, from |-> from]

\* {"module.base_model."+k: v for k, v in src.items()
\*    if "module.base_model."+k in model_dict}
Filter2D(src, md) ==
  LET keep == {k \in DOMAIN src : (PrefixBase \o k) \in DOMAIN md}
  IN [x \in {PrefixBase \o k : k \in keep} |->
        src[CHOOSE k \in keep : PrefixBase \o k = x]]

\* the entries with (k in model_dict) and (v.size() == model_dict[k].size())
FilterSame(src, md) ==
  Restrict(src, {k \in DOMAIN src : k \in DOMAIN md /\ src[k].shape = md[k].shape})

\* torch.chunk(t, chunks, 1): the sizes of the chunks along dimension 1
ChunkSizes(c, chunks) ==
  LET size  == (c + chunks - 1) \div chunks
      count == (c + size - 1) \div size
  IN [j \in 1..count |-> IF j < count THEN size ELSE c - (count - 1) * size]

\* the channel repair of res3a_2.weight: the first three of four chunks,
\* concatenated along dimension 1; a KeyError without the source entry, an
\* IndexError when there are fewer than three chunks
Repair(src) ==
  IF Res3a2Weight \notin DOMAIN src THEN [error |-> "KeyError"]
  ELSE LET sizes == ChunkSizes(src[Res3a2Weight].shape[2], 4)
       IN IF Len(sizes) < 3 THEN [error |-> "IndexError"]
          ELSE [error |-> None,
                tensor |-> Tensor(<<src[Res3a2Weight].shape[1],
                                    sizes[1] + sizes[2] + sizes[3]>>, "repair")]

Result(d, files) == [error |-> None, dict |-> d, files |-> files]
Raise(e, files) == [error |-> e, dict |-> EmptyDict, files |-> files]

\* the branches "3D" and "both" after their first assignment to new_state_dict
With3D(start, md, files) ==
  LET d == Update(start, FilterSame(env.file3d, md))
      r == Repair(env.file3d)
  IN IF r.error # None THEN Raise(r.error, files)
     ELSE Result(Put(d, Res3a2Weight, r.tensor), files)

init_ECO(md) ==
  CASE args.pretrained_parts = "scratch" -> Result(EmptyDict, {})
    [] args.pretrained_parts = "2D" -> Result(Filter2D(env.file2d, md), {"2d"})
    [] args.pretrained_parts = "3D" -> With3D(EmptyDict, md, {"3d"})
    [] args.pretrained_parts = "finetune" -> Result(FilterSame(env.fileft, md), {"ft"})
    [] args.pretrained_parts = "both" ->
         With3D(Filter2D(env.file2d, md), md, {"2d", "3d"})
    [] OTHER -> Raise("UnboundLocalError", {})

init_C3DRes18(md) ==
  CASE args.pretrained_parts = "scratch" -> Result(EmptyDict, {})
    [] args.pretrained_parts = "3D" -> Result(FilterSame(env.file3d, md), {"3d"})
    [] OTHER -> Raise("ValueError: pretrained_parts", {})

\* the initialisation of a parameter no pretrained file provided
FillKind(k) ==
  IF HasToken(k, "weight")
  THEN IF HasToken(k, "bn") THEN "constant_1" ELSE "xavier_uniform_"
  ELSE IF HasToken(k, "bias") THEN "constant_0" ELSE "zero_"

Fill(md, nsd) ==
  LET un_init_dict_keys == {k \in DOMAIN md : k \notin DOMAIN nsd}
  IN Update(nsd, [k \in un_init_dict_keys |-> Tensor(md[k].shape, FillKind(k))])

\* what load_state_dict accepts: the names of the model, each of its shape
Loadable(md, sd) ==
  /\ DOMAIN sd = DOMAIN md
  /\ \A k \in DOMAIN md : sd[k].shape = md[k].shape

\* -------------------------------------------------------------- start-up
\* a new process: module globals and locals
Fresh ==
  /\ pc = "dataset"
  /\ error = None
  /\ args = cmdline
  /\ num_class = 0
  /\ rgb_read_format = Unbound
  /\ model = NoneRec
  /\ model_dict = EmptyDict
  /\ new_state_dict = EmptyDict
  /\ loaded = {}
  /\ train_loader = NoneRec
  /\ val_loader = NoneRec
  /\ criterion = None
  /\ optimizer = <<>>
  /\ best_prec1 = 0
  /\ epoch = -1
  /\ i = 0
  /\ grad = {}
  /\ handed = <<>>
  /\ nproc = 0
  /\ forwarded = <<>>
  /\ top1_count = 0
  /\ prec1 = -1
  /\ best0 = -1
  /\ seen = <<>>

Fail(e) == pc' = "error" /\ error' = e

\* the selection of num_class and rgb_read_format by args.dataset
SelectDataset ==
  /\ pc = "dataset"
  /\ CASE args.dataset = "ucf101" ->
            /\ num_class' = 101 /\ rgb_read_format' = "{:05d}.jpg"
            /\ pc' = "model" /\ error' = error
       [] args.dataset = "hmdb51" ->
            /\ num_class' = 51 /\ rgb_read_format' = rgb_read_format
            /\ pc' = "model" /\ error' = error
       [] args.dataset = "kinetics" ->
            /\ num_class' = 400 /\ rgb_read_format' = "{:05d}.jpg"
            /\ pc' = "model" /\ error' = error
       [] args.dataset = "something" ->
            /\ num_class' = 174 /\ rgb_read_format' = "{:04d}.jpg"
            /\ pc' = "model" /\ error' = error
       [] OTHER ->
            /\ Fail("ValueError: Unknown dataset")
            /\ UNCHANGED <<num_class, rgb_read_format>>
  /\ UNCHANGED <<cmdline, env, fs, run, args, model, model_dict, new_state_dict,
                 loaded, train_loader, val_loader, criterion, optimizer,
                 best_prec1, epoch, i, grad, handed, nproc, forwarded,
                 top1_count, prec1, best0, seen>>

\* model = TSN(...), DataParallel, model_dict = model.state_dict()
BuildModel ==
  /\ pc = "model"
  /\ model' = [state |-> env.target, trained |-> <<>>, updates |-> 0]
  /\ model_dict' = env.target
  /\ pc' = "init"
  /\ UNCHANGED <<cmdline, env, fs, run, error, args, num_class, rgb_read_format,
                 new_state_dict, loaded, train_loader, val_loader, criterion,
                 optimizer, best_prec1, epoch, i, grad, handed, nproc, forwarded,
                 top1_count, prec1, best0, seen>>

\* new_state_dict = init_ECO(model_dict) / init_C3DRes18(model_dict)
InitWeights ==
  /\ pc = "init"
  /\ LET r == IF args.arch = "ECO" THEN init_ECO(model_dict)
              ELSE init_C3DRes18(model_dict)
     IN /\ loaded' = loaded \cup r.files
        /\ IF r.error = None
           THEN new_state_dict' = r.dict /\ pc' = "fill" /\ error' = error
           ELSE new_state_dict' = new_state_dict /\ Fail(r.error)
  /\ UNCHANGED <<cmdline, env, fs, run, args, num_class, rgb_read_format, model,
                 model_dict, train_loader, val_loader, criterion, optimizer,
                 best_prec1, epoch, i, grad, handed, nproc, forwarded,
                 top1_count, prec1, best0, seen>>

\* the loop over un_init_dict_keys
GapFill ==
  /\ pc = "fill"
  /\ new_state_dict' = Fill(model_dict, new_state_dict)
  /\ pc' = "load"
  /\ UNCHANGED <<cmdline, env, fs, run, error, args, num_class, rgb_read_format,
                 model, model_dict, loaded, train_loader, val_loader, criterion,
                 optimizer, best_prec1, epoch, i, grad, handed, nproc, forwarded,
                 top1_count, prec1, best0, seen>>

\* model.load_state_dict(new_state_dict)
LoadStateDict ==
  /\ pc = "load"
  /\ IF Loadable(model_dict, new_state_dict)
     THEN /\ model' = [model EXCEPT !.state = new_state_dict]
          /\ pc' = "resume" /\ error' = error
     ELSE /\ Fail("RuntimeError: load_state_dict")
          /\ model' = model
  /\ UNCHANGED <<cmdline, env, fs, run, args, num_class, rgb_read_format,
                 model_dict, new_state_dict, loaded, train_loader, val_loader,
                 criterion, optimizer, best_prec1, epoch, i, grad, handed, nproc,
                 forwarded, top1_count, prec1, best0, seen>>

\* if args.resume: the checkpoint file, when it is there, gives start_epoch,
\* best_prec1 and the parameters
Resume ==
  /\ pc = "resume"
  /\ IF args.resume # NoPath /\ args.resume \in DOMAIN fs
     THEN LET checkpoint == fs[args.resume]
          IN /\ args' = [args EXCEPT !.start_epoch = checkpoint.epoch]
             /\ best_prec1' = checkpoint.best_prec1
             /\ loaded' = loaded \cup {"resume"}
             /\ IF Loadable(model_dict, checkpoint.state_dict.state)
                THEN /\ model' = checkpoint.state_dict
                     /\ pc' = "loaders" /\ error' = error
                ELSE /\ Fail("RuntimeError: load_state_dict")
                     /\ model' = model
     ELSE /\ pc' = "loaders"
          /\ UNCHANGED <<args, best_prec1, loaded, model, error>>
  /\ UNCHANGED <<cmdline, env, fs, run, num_class, rgb_read_format, model_dict,
                 new_state_dict, train_loader, val_loader, criterion, optimizer,
                 epoch, i, grad, handed, nproc, forwarded, top1_count, prec1,
                 best0, seen>>

\* data_length by modality
DataLength(modality) == IF modality = RGB THEN 1 ELSE 5

\* train_loader and val_loader; image_tmpl needs rgb_read_format
BuildLoaders ==
  /\ pc = "loaders"
  /\ IF rgb_read_format = Unbound
     THEN /\ Fail("UnboundLocalError: rgb_read_format")
          /\ UNCHANGED <<train_loader, val_loader>>
     ELSE /\ train_loader' = [n |-> env.train_n, batch_size |-> args.batch_size,
                              shuffle |-> TRUE, image_tmpl |-> rgb_read_format,
                              new_length |-> DataLength(args.modality)]
          /\ val_loader' = [n |-> env.val_n, batch_size |-> args.batch_size,
                            shuffle |-> FALSE, image_tmpl |-> rgb_read_format,
                            new_length |-> DataLength(args.modality)]
          /\ pc' = "criterion" /\ error' = error
  /\ UNCHANGED <<cmdline, env, fs, run, args, num_class, rgb_read_format, model,
                 model_dict, new_state_dict, loaded, criterion, optimizer,
                 best_prec1, epoch, i, grad, handed, nproc, forwarded,
                 top1_count, prec1, best0, seen>>

\* the loss function by args.loss_type
BuildCriterion ==
  /\ pc = "criterion"
  /\ IF args.loss_type = "nll"
     THEN criterion' = "CrossEntropyLoss" /\ pc' = "optimizer" /\ error' = error
     ELSE Fail("ValueError: Unknown loss type") /\ criterion' = criterion
  /\ UNCHANGED <<cmdline, env, fs, run, args, num_class, rgb_read_format, model,
                 model_dict, new_state_dict, loaded, train_loader, val_loader,
                 optimizer, best_prec1, epoch, i, grad, handed, nproc, forwarded,
                 top1_count, prec1, best0, seen>>

\* torch.optim.SGD(policies, args.lr, weight_decay=args.weight_decay); then
\* validate() alone under args.evaluate, else the epoch loop from start_epoch
BuildOptimizer ==
  /\ pc = "optimizer"
  /\ optimizer' = [g \in DOMAIN env.policies |->
                     [lr_mult |-> env.policies[g].lr_mult,
                      decay_mult |-> env.policies[g].decay_mult,
                      lr |-> args.lr,
                      weight_decay |-> args.weight_decay]]
  /\ best0' = best_prec1
  /\ IF args.evaluate
     THEN pc' = "validate" /\ epoch' = epoch
     ELSE pc' = "epoch" /\ epoch' = args.start_epoch
  /\ i' = 0
  /\ forwarded' = <<>>
  /\ top1_count' = 0
  /\ UNCHANGED <<cmdline, env, fs, run, error, args, num_class, rgb_read_format,
                 model, model_dict, new_state_dict, loaded, train_loader,
                 val_loader, criterion, best_prec1, grad, handed, nproc, prec1,
                 seen>>

\* ------------------------------------------------------------ epoch loop
\* sum(epoch >= np.array(lr_steps))
RECURSIVE DecayCountStrict(_, _)
DecayCountStrict(e, steps) ==
  IF Len(steps) = 0 THEN 0
  ELSE (IF e > Head(steps) THEN 1 ELSE 0) + DecayCountStrict(e, Tail(steps))
RECURSIVE DecayCount(_, _)
DecayCount(e, steps) ==
  IF Len(steps) = 0 THEN 0
  ELSE (IF e >= Head(steps) THEN 1 ELSE 0) + DecayCount(e, Tail(steps))

\* adjust_learning_rate(optimizer, epoch, lr_steps): the new param_groups
adjust_learning_rate(groups, e, lr_steps) ==
  LET decay == Rat(1, Pow10(DecayCount(e, lr_steps)))
      lr    == RatMul(args.lr, decay)
  IN [g \in DOMAIN groups |->
        [groups[g] EXCEPT
           !.lr = RatMul(lr, Rat(groups[g].lr_mult, 1)),
           !.weight_decay = RatMul(args.weight_decay, Rat(groups[g].decay_mult, 1))]]

\* the head of "for epoch in range(args.start_epoch, args.epochs)": the loop
\* ends, or adjust_learning_rate runs and train() starts
EpochHead ==
  /\ pc = "epoch"
  /\ IF epoch < args.epochs
     THEN /\ optimizer' = adjust_learning_rate(optimizer, epoch, args.lr_steps)
          /\ pc' = "train"
     ELSE /\ pc' = "exit"
          /\ optimizer' = optimizer
  /\ i' = 0
  /\ forwarded' = <<>>
  /\ top1_count' = 0
  /\ handed' = <<>>
  /\ UNCHANGED <<cmdline, env, fs, run, error, args, num_class, rgb_read_format,
                 model, model_dict, new_state_dict, loaded, train_loader,
                 val_loader, criterion, best_prec1, epoch, grad, nproc, prec1,
                 best0, seen>>

\* one pass through the body of the loop of train()
TrainBatch ==
  /\ pc = "train"
  /\ i < LoaderLen(train_loader.n, train_loader.batch_size)
  /\ i # DiscardIndex(LoaderLen(train_loader.n, train_loader.batch_size))
  /\ \E c1 \in BOOLEAN, c2 \in BOOLEAN :
       LET n  == BatchLen(train_loader.n, train_loader.batch_size, i)
           g1 == Backward(grad, nproc)
           bd == IsBoundary(i, args.iter_size)
           g2 == IF args.iter_size # 1 THEN ScaleDown(g1) ELSE g1
           g3 == IF args.clip_gradient # None THEN ClipGrad(g2, c1) ELSE g2
           g4 == IF bd THEN {} ELSE g1
           g5 == IF args.clip_gradient # None THEN ClipGrad(g4, c2) ELSE g4
           h1 == IF bd THEN <<[at |-> "boundary", grad |-> g3]>> ELSE <<>>
       IN /\ (args.clip_gradient = None => ~c1 /\ ~c2)
          /\ (~bd => ~c1)
          /\ (g4 = {} => ~c2)
          /\ forwarded' = Append(forwarded, [idx |-> i, n |-> n])
          /\ top1_count' = top1_count + n
          /\ handed' = h1 \o <<[at |-> "tail", grad |-> g5]>>
          /\ model' = [model EXCEPT !.updates = @ + Len(handed')]
          /\ grad' = g5
          /\ nproc' = nproc + 1
          /\ i' = i + 1
  /\ UNCHANGED <<cmdline, env, fs, run, pc, error, args, num_class,
                 rgb_read_format, model_dict, new_state_dict, loaded,
                 train_loader, val_loader, criterion, optimizer, best_prec1,
                 epoch, prec1, best0, seen>>

\* the condition under which the epoch is evaluated
Evaluated(e) == (e + 1) % args.eval_freq = 0 \/ e = args.epochs - 1

\* the loop of train() ends at the break, and train() returns
TrainReturn ==
  /\ pc = "train"
  /\ ~ (/\ i < LoaderLen(train_loader.n, train_loader.batch_size)
        /\ i # DiscardIndex(LoaderLen(train_loader.n, train_loader.batch_size)))
  /\ model' = [model EXCEPT !.trained = Append(@, epoch)]
  /\ pc' = "trained"
  /\ UNCHANGED <<cmdline, env, fs, run, error, args, num_class, rgb_read_format,
                 model_dict, new_state_dict, loaded, train_loader, val_loader,
                 criterion, optimizer, best_prec1, epoch, i, grad, handed, nproc,
                 forwarded, top1_count, prec1, best0, seen>>

\* after train(): validate() is called, or the loop goes to the next epoch
EvalCheck ==
  /\ pc = "trained"
  /\ IF Evaluated(epoch)
     THEN /\ pc' = "validate"
          /\ i' = 0 /\ forwarded' = <<>> /\ top1_count' = 0
          /\ epoch' = epoch
     ELSE /\ pc' = "epoch"
          /\ epoch' = epoch + 1
          /\ UNCHANGED <<i, forwarded, top1_count>>
  /\ UNCHANGED <<cmdline, env, fs, run, error, args, num_class, rgb_read_format,
                 model, model_dict, new_state_dict, loaded, train_loader,
                 val_loader, criterion, optimizer, best_prec1, grad, handed,
                 nproc, prec1, best0, seen>>

\* one pass through the body of the loop of validate()
ValidateBatch ==
  /\ pc = "validate"
  /\ i < LoaderLen(val_loader.n, val_loader.batch_size)
  /\ i # DiscardIndex(LoaderLen(val_loader.n, val_loader.batch_size))
  /\ forwarded' = Append(forwarded,
                         [idx |-> i, n |-> BatchLen(val_loader.n, val_loader.batch_size, i)])
  /\ top1_count' = top1_count + BatchLen(val_loader.n, val_loader.batch_size, i)
  /\ i' = i + 1
  /\ UNCHANGED <<cmdline, env, fs, run, pc, error, args, num_class,
                 rgb_read_format, model, model_dict, new_state_dict, loaded,
                 train_loader, val_loader, criterion, optimizer, best_prec1,
                 epoch, grad, handed, nproc, prec1, best0, seen>>

\* validate() returns top1.avg: 0 when no batch was counted, else a value
\* the data decides
ValidateReturn ==
  /\ pc = "validate"
  /\ ~ (/\ i < LoaderLen(val_loader.n, val_loader.batch_size)
        /\ i # DiscardIndex(LoaderLen(val_loader.n, val_loader.batch_size)))
  /\ \E avg \in env.precs :
       /\ (top1_count = 0 => avg = 0)
       /\ prec1' = avg
  /\ pc' = IF args.evaluate THEN "exit" ELSE "save"
  /\ UNCHANGED <<cmdline, env, fs, run, error, args, num_class, rgb_read_format,
                 model, model_dict, new_state_dict, loaded, train_loader,
                 val_loader, criterion, optimizer, best_prec1, epoch, i, grad,
                 handed, nproc, forwarded, top1_count, best0, seen>>

\* the file names of save_checkpoint
CheckpointNameNoEpoch(a, e) ==
  Join(<<"_">>, <<a.snapshot_pref, Lower(a.modality),
                  <<"c", "h", "e", "c", "k", "p", "o", "i", "n", "t", ".",
                    "p", "t", "h", ".", "t", "a", "r">>>>)
CheckpointName(a, e) ==
  Join(<<"_">>, <<a.snapshot_pref, Lower(a.modality),
                  <<"e", "p", "o", "c", "h">>, Str(e),
                  <<"c", "h", "e", "c", "k", "p", "o", "i", "n", "t", ".",
                    "p", "t", "h", ".", "t", "a", "r">>>>)
BestName(a) ==
  Join(<<"_">>, <<a.snapshot_pref, Lower(a.modality),
                  <<"m", "o", "d", "e", "l", "_", "b", "e", "s", "t", ".",
                    "p", "t", "h", ".", "t", "a", "r">>>>)

\* save_checkpoint(state, is_best): the file system after it
save_checkpoint(files, state, is_best) ==
  LET filename == CheckpointName(args, state.epoch)
      saved    == Put(files, filename, state)
  IN IF is_best THEN Put(saved, BestName(args), saved[filename]) ELSE saved

\* the epoch counter stored in the checkpoint of epoch e
SavedEpochSame(e) == e
SavedEpoch(e) == e + 1

\* is_best = prec1 > best_prec1
IsBestOrEqual(p, best) == p >= best
IsBest(p, best) == p > best

Max2(a, b) == IF a > b THEN a ELSE b

\* is_best, best_prec1 and save_checkpoint after an evaluated epoch
SaveCheckpoint ==
  /\ pc = "save"
  /\ LET is_best == IsBest(prec1, best_prec1)
         best    == Max2(prec1, best_prec1)
     IN /\ best_prec1' = best
        /\ fs' = save_checkpoint(fs, [epoch |-> SavedEpoch(epoch),
                                      arch |-> args.arch,
                                      state_dict |-> model,
                                      best_prec1 |-> best], is_best)
  /\ seen' = Append(seen, <<epoch, prec1>>)
  /\ epoch' = epoch + 1
  /\ pc' = "epoch"
  /\ UNCHANGED <<cmdline, env, run, error, args, num_class, rgb_read_format,
                 model, model_dict, new_state_dict, loaded, train_loader,
                 val_loader, criterion, optimizer, i, grad, handed, nproc,
                 forwarded, top1_count, prec1, best0>>

\* a path given to --resume that names no file
MissingPath == <<"n", "o", "n", "e">>

\* the program is run again on the same files, with or without --resume
Restart ==
  /\ pc \in {"exit", "error"}
  /\ run < env.runs
  /\ run' = run + 1
  /\ \E r \in {NoPath, MissingPath} \cup DOMAIN fs :
       cmdline' = [cmdline EXCEPT !.resume = r]
  /\ pc' = "dataset"
  /\ error' = None
  /\ args' = cmdline'
  /\ num_class' = 0
  /\ rgb_read_format' = Unbound
  /\ model' = NoneRec
  /\ model_dict' = EmptyDict
  /\ new_state_dict' = EmptyDict
  /\ loaded' = {}
  /\ train_loader' = NoneRec
  /\ val_loader' = NoneRec
  /\ criterion' = None
  /\ optimizer' = <<>>
  /\ best_prec1' = 0
  /\ epoch' = -1
  /\ i' = 0
  /\ grad' = {}
  /\ handed' = <<>>
  /\ nproc' = 0
  /\ forwarded' = <<>>
  /\ top1_count' = 0
  /\ prec1' = -1
  /\ best0' = -1
  /\ seen' = <<>>
  /\ UNCHANGED <<env, fs>>

Next ==
  \/ SelectDataset
  \/ BuildModel
  \/ InitWeights
  \/ GapFill
  \/ LoadStateDict
  \/ Resume
  \/ BuildLoaders
  \/ BuildCriterion
  \/ BuildOptimizer
  \/ EpochHead
  \/ TrainBatch
  \/ TrainReturn
  \/ EvalCheck
  \/ ValidateBatch
  \/ ValidateReturn
  \/ SaveCheckpoint
  \/ Restart

\* ------------------------------------------------------- configurations
Conv1Weight == <<"module", "base_model", "conv1", "weight">>
BnWeight == <<"module", "base_model", "res3a", "bn", "weight">>
BnMean == <<"module", "base_model", "res3a", "bn", "running_mean">>
FcBias == <<"module", "new_fc", "bias">>
OtherWeight == <<"module", "fc_action", "weight">>

\* the parameters of a model: the repaired weight with chanA input channels,
\* a 2D weight with chanB
Target(chanA, chanB) ==
  (Res3a2Weight :> Tensor(<<1, chanA>>, "default"))
  @@ (Conv1Weight :> Tensor(<<1, chanB>>, "default"))
  @@ (BnWeight :> Tensor(<<1, 1>>, "default"))
  @@ (BnMean :> Tensor(<<1, 1>>, "default"))
  @@ (FcBias :> Tensor(<<1, 1>>, "default"))

\* the files that give each name of opts one of its shapes, or leave it out
Files(opts, from) ==
  LET all == UNION {opts[k] : k \in DOMAIN opts}
      picks == {f \in [DOMAIN opts -> all] : \A k \in DOMAIN opts : f[k] \in opts[k]}
  IN {[k \in {x \in DOMAIN f : f[x] # NoShape} |-> Tensor(f[k], from)] : f \in picks}

Files3D(from) ==
  Files((Res3a2Weight :> ({NoShape} \cup {<<1, c>> : c \in 1..MaxChan}))
        @@ (FcBias :> {NoShape, <<1, 1>>, <<1, 2>>})
        @@ (OtherWeight :> {NoShape, <<1, 1>>}), from)

Files2D ==
  Files((<<"conv1", "weight">> :> {NoShape, <<1, 1>>, <<1, 2>>})
        @@ (<<"fc", "weight">> :> {NoShape, <<1, 1>>}), "2d")

GoodFile3D(from) ==
  (Res3a2Weight :> Tensor(<<1, 4>>, from)) @@ (FcBias :> Tensor(<<1, 1>>, from))
GoodFile2D == (<<"conv1", "weight">> :> Tensor(<<1, 1>>, "2d"))

Policies == <<[lr_mult |-> 1, decay_mult |-> 1], [lr_mult |-> 2, decay_mult |-> 0]>>
PoliciesECO == <<[lr_mult |-> 5, decay_mult |-> 1], [lr_mult |-> 10, decay_mult |-> 0],
                 [lr_mult |-> 1, decay_mult |-> 0]>>

DefaultCmd ==
  [dataset |-> "ucf101", arch |-> "ECO", pretrained_parts |-> "scratch",
   loss_type |-> "nll", resume |-> NoPath, evaluate |-> FALSE, start_epoch |-> 0,
   epochs |-> 1, eval_freq |-> 1, lr_steps |-> <<>>, lr |-> Rat(1, 1000),
   weight_decay |-> Rat(5, 10000), snapshot_pref |-> <<"e", "c", "o">>,
   modality |-> RGB, iter_size |-> 1, clip_gradient |-> None, batch_size |-> 1]

DefaultEnv ==
  [train_n |-> 2, val_n |-> 2, file2d |-> GoodFile2D, file3d |-> GoodFile3D("3d"),
   fileft |-> GoodFile3D("ft"), target |-> Target(3, 1), policies |-> Policies,
   precs |-> {0, 1}, runs |-> 2]

\* the first run starts on a file system without checkpoints
Start ==
  /\ fs = EmptyDict
  /\ run = 1
  /\ Fresh

\* every dataset, architecture, pretrained mode and loss type
InitStartup ==
  /\ cmdline \in {[DefaultCmd EXCEPT !.dataset = d, !.arch = a, !.pretrained_parts = p,
                                     !.loss_type = l, !.evaluate = ev] :
                    d \in {"ucf101", "hmdb51", "kinetics", "something", "activitynet"},
                    a \in {"ECO", "C3DRes18"},
                    p \in {"scratch", "2D", "3D", "both", "finetune"},
                    l \in {"nll", "mse"},
                    ev \in BOOLEAN}
  /\ env = DefaultEnv
  /\ Start

ModesOf(a) ==
  IF a = "ECO" THEN {"scratch", "2D", "3D", "both", "finetune"} ELSE {"scratch", "3D"}

\* every valid pair of architecture and pretrained mode, over pretrained files
\* and model shapes of every kind
InitWeightsInit ==
  /\ cmdline \in {[DefaultCmd EXCEPT !.arch = a, !.pretrained_parts = p] :
                    a \in {"ECO", "C3DRes18"},
                    p \in {"scratch", "2D", "3D", "both", "finetune"}}
  /\ cmdline.pretrained_parts \in ModesOf(cmdline.arch)
  /\ env \in {[DefaultEnv EXCEPT !.file2d = f2, !.file3d = f3, !.fileft = ft,
                                 !.target = Target(ca, cb)] :
                f2 \in IF cmdline.pretrained_parts \in {"2D", "both"}
                       THEN Files2D ELSE {GoodFile2D},
                f3 \in IF cmdline.pretrained_parts \in {"3D", "both"}
                       THEN Files3D("3d") ELSE {GoodFile3D("3d")},
                ft \in IF cmdline.pretrained_parts = "finetune"
                       THEN Files3D("ft") ELSE {GoodFile3D("ft")},
                ca \in 1..MaxChan,
                cb \in 1..2}
  /\ Start

\* every loader size, batch size, iter_size and clipping setting
InitTrain ==
  /\ cmdline \in {[DefaultCmd EXCEPT !.iter_size = k, !.clip_gradient = c,
                                     !.batch_size = b, !.epochs = n, !.eval_freq = f] :
                    k \in 1..MaxIter, c \in {None, "set"}, b \in 1..MaxBatch,
                    n \in {MaxEpochs}, f \in {1}}
  /\ env \in {[DefaultEnv EXCEPT !.train_n = tn, !.val_n = MaxSamples + 1 - tn,
                                 !.precs = {0}] :
                tn \in 1..MaxSamples}
  /\ Start

\* every number of epochs, evaluation frequency, checkpoint prefix and modality
InitRun ==
  /\ cmdline \in {[DefaultCmd EXCEPT !.epochs = n, !.eval_freq = f, !.start_epoch = s,
                                     !.snapshot_pref = sp, !.modality = m,
                                     !.lr_steps = <<1>>] :
                    n \in 1..MaxEpochs, f \in 1..2, s \in 0..1,
                    sp \in {<<"e", "c", "o">>, <<"r", "u", "n", "_", "1">>},
                    m \in {RGB, Flow, RGBDiff}}
  /\ env \in {[DefaultEnv EXCEPT !.precs = 0..MaxPrec, !.val_n = vn,
                                 !.runs = MaxRuns] : vn \in 1..2}
  /\ Start

LrEpochs == 92

\* a long schedule: decay thresholds of every kind, 92 epochs
InitLR ==
  /\ cmdline \in {[DefaultCmd EXCEPT !.epochs = LrEpochs, !.eval_freq = 50,
                                     !.lr_steps = st, !.lr = l] :
                    st \in {<<30, 60, 90>>, <<2, 2>>, <<3, 1>>, <<>>},
                    l \in {Rat(1, 10), Rat(1, 1000)}}
  /\ env \in {[DefaultEnv EXCEPT !.policies = po, !.precs = {0}] :
                po \in {Policies, PoliciesECO}}
  /\ Start

SpecStartup == InitStartup /\ [][Next]_vars
SpecInit == InitWeightsInit /\ [][Next]_vars
SpecTrain == InitTrain /\ [][Next]_vars
Spec == InitRun /\ [][Next]_vars
SpecLR == InitLR /\ [][Next]_vars

\* ----------------------------------------------------------------- claims
Last(q) == q[Len(q)]

\* ceil(n / b), by cases
CeilDiv(n, b) == IF n % b = 0 THEN n \div b ELSE n \div b + 1

\* the loop body of train() has just processed batch i - 1
AfterTrainBatch == pc = "train" /\ i > 0

\* C1: with iter_size > 1, a processed batch that is not an accumulation
\* boundary (index % iter_size # 0) makes no optimizer step.
C1_NoStepOffBoundary ==
  (AfterTrainBatch /\ args.iter_size > 1 /\ (i - 1) % args.iter_size # 0)
    => handed = <<>>

\* C2: with iter_size = k > 1, the gradient handed to the optimizer at an
\* accumulation boundary is the sum of the gradients of exactly the k most
\* recent processed batches, each divided once by k.
C2_BoundaryGradIsMeanOfK ==
  (AfterTrainBatch /\ args.iter_size > 1 /\ (i - 1) % args.iter_size = 0)
    => /\ handed[1].at = "boundary"
       /\ {t.id : t \in handed[1].grad} = (nproc - args.iter_size)..(nproc - 1)
       /\ \A t \in handed[1].grad : t.divs = 1

\* C3: train() and validate() forward the batches 0, 1, ... in order, each of
\* batch_size samples, never the batch with the last index, and when the
\* loop has ended exactly ceil(N / batch_size) - 1 of them.
C3_DiscardFinalBatch ==
  /\ pc \in {"train", "trained", "validate", "save"} =>
       LET n == IF pc \in {"train", "trained"} THEN env.train_n ELSE env.val_n
           last == CeilDiv(n, args.batch_size) - 1
       IN /\ \A j \in 1..Len(forwarded) :
               /\ forwarded[j].idx = j - 1
               /\ forwarded[j].idx # last
               /\ forwarded[j].n = args.batch_size
          /\ top1_count = args.batch_size * Len(forwarded)
          /\ pc \in {"trained", "save"} => Len(forwarded) = last

\* train() returned from a loader of 9 samples in batches of 4, 2 batches forwarded
C3_Witness ==
  /\ pc = "trained" /\ env.train_n = 9 /\ args.batch_size = 4
  /\ Len(forwarded) = 2 /\ top1_count = 8

\* C4: the state dict passed to model.load_state_dict has exactly the names
\* of model_dict, each with the shape model_dict has for it.
C4_ResolvedStateMatchesTarget ==
  pc = "load" =>
    /\ \A k \in DOMAIN model_dict :
         k \in DOMAIN new_state_dict /\ new_state_dict[k].shape = model_dict[k].shape
    /\ \A k \in DOMAIN new_state_dict : k \in DOMAIN model_dict

MaxOf(S) == CHOOSE m \in S : \A x \in S : x <= m

BestSoFar == MaxOf({best0} \cup {seen[j][2] : j \in DOMAIN seen})

\* the first evaluation of this run that reached the run's highest prec1
FirstBest ==
  CHOOSE j \in DOMAIN seen :
    /\ seen[j][2] = BestSoFar
    /\ \A h \in 1..(j - 1) : seen[h][2] < BestSoFar

\* C5: save_checkpoint overwrites the best-model file with the checkpoint just
\* saved exactly when prec1 > best_prec1, and leaves it as it was otherwise;
\* best_prec1 never decreases and is the maximum of its value on entry to the
\* epoch loop and every prec1 evaluated since; once an evaluation of the run
\* exceeded that entry value, the best-model file holds the checkpoint of the
\* evaluated epoch with the highest prec1.
C5_BestPromotion ==
  /\ [](best0 >= 0 =>
          /\ pc # "save" => best_prec1 = BestSoFar
          /\ (\E j \in DOMAIN seen : seen[j][2] > best0) =>
               /\ BestName(args) \in DOMAIN fs
               /\ fs[BestName(args)].best_prec1 = BestSoFar
               /\ fs[BestName(args)].epoch = seen[FirstBest][1] + 1
               /\ fs[BestName(args)] =
                    fs[CheckpointName(args, seen[FirstBest][1] + 1)])
  /\ [][pc = "save" =>
          /\ best_prec1' >= best_prec1
          /\ IF prec1 > best_prec1
             THEN /\ BestName(args) \in DOMAIN fs'
                  /\ fs'[BestName(args)] = fs'[CheckpointName(args, epoch + 1)]
                  /\ fs'[BestName(args)].state_dict = model
             ELSE /\ (BestName(args) \in DOMAIN fs') = (BestName(args) \in DOMAIN fs)
                  /\ BestName(args) \in DOMAIN fs =>
                       fs'[BestName(args)] = fs[BestName(args)]]_vars

\* a later evaluation did not exceed the best: the best-model file holds the
\* checkpoint of an earlier epoch
C5_Witness ==
  /\ Len(seen) = 2 /\ seen[1][2] = 2 /\ seen[2][2] = 2
  /\ BestName(args) \in DOMAIN fs
  /\ fs[BestName(args)].epoch = seen[1][1] + 1

Consecutive(q) == \A j \in 1..(Len(q) - 1) : q[j + 1] = q[j] + 1

\* C6: after a resume from a checkpoint file, start_epoch, best_prec1 and the
\* parameters are those of the file; the checkpoint saved after training epoch
\* e stores the counter e + 1; the epochs trained into the parameters, across
\* runs, are consecutive, and the epoch being trained follows the last of them.
C6_ResumeContinues ==
  /\ (pc \in {"loaders", "criterion", "optimizer"} /\ "resume" \in loaded) =>
       /\ args.start_epoch = fs[args.resume].epoch
       /\ best_prec1 = fs[args.resume].best_prec1
       /\ model = fs[args.resume].state_dict
  /\ (pc = "epoch" /\ seen = <<>> /\ "resume" \in loaded /\ model.trained # <<>>) =>
       epoch >= Last(model.trained) + 1
  /\ \A f \in DOMAIN fs :
       /\ fs[f].state_dict.trained # <<>>
       /\ fs[f].epoch = Last(fs[f].state_dict.trained) + 1
  /\ pc \in {"train", "trained", "validate", "save", "epoch"} =>
       /\ Consecutive(model.trained)
       /\ (pc = "train" /\ model.trained # <<>>) => epoch = Last(model.trained) + 1

\* a later run resumed from the checkpoint saved after epoch 0 trains epoch 1
C6_Witness ==
  /\ run = 2 /\ pc = "train" /\ "resume" \in loaded
  /\ args.resume \in DOMAIN fs /\ fs[args.resume].epoch = 1
  /\ epoch = 1 /\ model.trained = <<0>>

ConfigErrors == {"ValueError: Unknown dataset", "ValueError: Unknown loss type",
                 "ValueError: pretrained_parts"}

\* C7: when a configuration error is raised, the model has not been built, no
\* checkpoint has been loaded, and no loader or optimizer has been created.
C7_ConfigErrorsBeforeState ==
  error \in ConfigErrors =>
    /\ model = NoneRec
    /\ loaded = {}
    /\ train_loader = NoneRec /\ val_loader = NoneRec
    /\ optimizer = <<>>

\* the number of thresholds t of lr_steps with e >= t
Passed(e, lr_steps) == Cardinality({j \in DOMAIN lr_steps : e >= lr_steps[j]})

LrIs(g, c) ==
  RatEq(optimizer[g].lr,
        Rat(args.lr[1] * optimizer[g].lr_mult, args.lr[2] * Pow10(c)))

C9_KnownDatasetDefinesTemplate ==
  args.dataset \in {"ucf101", "hmdb51", "kinetics", "something"} =>
    /\ pc \notin {"dataset", "error"} => num_class > 0 /\ rgb_read_format # Unbound
    /\ error # "UnboundLocalError: rgb_read_format"

Chars_epoch == <<"_", "e", "p", "o", "c", "h", "_">>

\* C10 as stated: the checkpoint is <run_prefix>_<modality>_epoch_<epoch>_checkpoint.tar
\* and the best copy <run_prefix>_<modality>_model_best.tar.
C10_NamesAsStated ==
  \A f \in DOMAIN fs :
    \/ f = args.snapshot_pref \o <<"_">> \o args.modality \o Chars_epoch
             \o Str(fs[f].epoch)
             \o <<"_", "c", "h", "e", "c", "k", "p", "o", "i", "n", "t", ".", "t", "a", "r">>
    \/ f = args.snapshot_pref \o <<"_">> \o args.modality
             \o <<"_", "m", "o", "d", "e", "l", "_", "b", "e", "s", "t", ".", "t", "a", "r">>

PthCheckpoint(e) ==
  args.snapshot_pref \o <<"_">> \o Lower(args.modality) \o Chars_epoch \o Str(e)
    \o <<"_", "c", "h", "e", "c", "k", "p", "o", "i", "n", "t", ".",
         "p", "t", "h", ".", "t", "a", "r">>

PthBest ==
  args.snapshot_pref \o <<"_">> \o Lower(args.modality)
    \o <<"_", "m", "o", "d", "e", "l", "_", "b", "e", "s", "t", ".",
         "p", "t", "h", ".", "t", "a", "r">>

\* C10, amended: every file save_checkpoint wrote is
\* <run_prefix>_<modality in lower case>_epoch_<epoch>_checkpoint.pth.tar with
\* <epoch> the epoch of the state in it, or the best copy
\* <run_prefix>_<modality in lower case>_model_best.pth.tar; the checkpoint of
\* every evaluation of the run is in its file; distinct epochs have distinct
\* checkpoint file names, none of them the name of the best copy.
C10_FileNames ==
  /\ \A f \in DOMAIN fs : f = PthCheckpoint(fs[f].epoch) \/ f = PthBest
  /\ \A j \in DOMAIN seen :
       /\ PthCheckpoint(seen[j][1] + 1) \in DOMAIN fs
       /\ fs[PthCheckpoint(seen[j][1] + 1)].epoch = seen[j][1] + 1
  /\ (\E j \in DOMAIN seen : seen[j][2] > best0) => PthBest \in DOMAIN fs
  /\ \A e1 \in 0..(args.epochs + 1) :
       /\ \A e2 \in 0..(e1 - 1) : CheckpointName(args, e1) # CheckpointName(args, e2)
       /\ CheckpointName(args, e1) # BestName(args)

\* two checkpoints and the best copy of an RGBDiff run are on the file system
C10_Witness ==
  /\ args.modality = RGBDiff
  /\ Len(seen) = 2
  /\ PthCheckpoint(1) \in DOMAIN fs /\ PthCheckpoint(2) \in DOMAIN fs
  /\ PthBest \in DOMAIN fs

====
